---------------------------- MODULE Spec2Model ----------------------------
(***************************************************************************)
(* Blogicum: the post-visibility and ownership rules of blog/views.py,     *)
(* blog/managers.py, blog/models.py and blog/forms.py.                     *)
(*                                                                         *)
(* The state is the entity store (users, categories, posts, comments and   *)
(* the two auto-increment counters), the clock read by timezone.now(), and *)
(* the instant at which blog/views.py was imported (IndexListView.queryset *)
(* is a class attribute: PostManager.get_queryset runs once, at import).   *)
(*                                                                         *)
(* A view is an operator of the store and of the request: it yields the    *)
(* response and the store after the request.  The actions apply the views  *)
(* that write.  The list and detail views write nothing.                   *)
(***************************************************************************)
EXTENDS Integers, Sequences, FiniteSets, TLC

\* ------------------------------------------------------------- bounds
MaxTime == 1
MaxPosts == 1
MaxComments == 1

\* --------------------------------------------------- program constants
\* Comment.text = models.TextField(max_length=120)
COMMENT_TEXT_MAX_LENGTH == 120

\* -------------------------------------------------------------- inputs
Users == {"alice", "bob"}
Anonymous == "AnonymousUser"
Viewers == Users \cup {Anonymous}
Usernames == Users \cup {"nobody"}
FirstNames == {"", "A"}
CatIds == {"c1"}
Slugs == CatIds \cup {"missing"}
Null == "null"
Times == 0..MaxTime
PostIdInputs == 1..(MaxPosts + 1)
CommentIdInputs == 1..(MaxComments + 1)

\* A text is a run of whitespace, a body that neither starts nor ends with
\* whitespace, and a run of whitespace.
TextOf(lead, body, trail) == [lead |-> lead, body |-> body, trail |-> trail]
\* The empty text, a blank one, a short one, the longest valid body followed
\* by a space, and a body that is too long.
Texts ==
    {TextOf(0, 0, 0), TextOf(1, 0, 0), TextOf(0, 1, 0),
     TextOf(0, COMMENT_TEXT_MAX_LENGTH, 1),
     TextOf(0, COMMENT_TEXT_MAX_LENGTH + 1, 0)}
TextLen(text) == text.lead + text.body + text.trail

\* The fields PostForm submits, and the fields UserForm submits.
PostForms == [pub_date : Times, category : CatIds \cup {Null}]
UserForms == [first_name : FirstNames]

VARIABLES now, import_now, users, categories, posts, comments,
          next_post_id, next_comment_id

vars == <<now, import_now, users, categories, posts, comments,
          next_post_id, next_comment_id>>

\* ------------------------------------------------------------- helpers
Remove(f, S) == [k \in DOMAIN f \ S |-> f[k]]
Put(f, k, v) == [j \in DOMAIN f \cup {k} |-> IF j = k THEN v ELSE f[j]]

\* The store a view reads and returns.
Store ==
    [users |-> users, posts |-> posts, comments |-> comments,
     next_post_id |-> next_post_id, next_comment_id |-> next_comment_id]

\* Responses.
Ok == [status |-> "ok", target |-> Null]
NotFound == [status |-> "notfound", target |-> Null]
ServerError == [status |-> "error", target |-> Null]
FormInvalid == [status |-> "invalid", target |-> Null]
RedirectLogin == [status |-> "login", target |-> Null]
RedirectDetail(post_id) == [status |-> "detail", target |-> post_id]
RedirectProfile(user) == [status |-> "profile", target |-> user]

is_authenticated(user) == user \in Users

\* ------------------------------------------------------- blog/models.py
\* The default of PublishedModel.is_published (core/models.py).
IsPublishedDefault == TRUE

\* PostCreateView.form_valid: the form's fields, and author = request.user.
NewPost(user, form) ==
    [author |-> user, is_published |-> IsPublishedDefault,
     pub_date |-> form.pub_date, category |-> form.category]

\* ------------------------------------------------------- blog/forms.py
\* forms.CharField(strip=True): the cleaned value has no surrounding space.
Strip(text) == TextOf(0, text.body, 0)

\* Mutant: max_length is not enforced.
CommentFormValid_NoMaxLength(text) == TextLen(Strip(text)) > 0

CommentFormValid(text) ==
    /\ TextLen(Strip(text)) > 0
    /\ TextLen(Strip(text)) <= COMMENT_TEXT_MAX_LENGTH

CommentFormSave(comment, text) == [comment EXCEPT !.text = Strip(text)]

PostFormValid(form) == form.category \in DOMAIN categories

\* Mutant: is_published is not excluded from the form, and arrives unchecked.
PostFormSave_WithIsPublished(post, form) ==
    [post EXCEPT !.pub_date = form.pub_date, !.category = form.category,
                 !.is_published = FALSE]

PostFormSave(post, form) ==
    [post EXCEPT !.pub_date = form.pub_date, !.category = form.category]

UserFormSave(user_record, form) ==
    [user_record EXCEPT !.first_name = form.first_name]

\* ----------------------------------------------------- blog/managers.py
\* PostManager.get_queryset, with t the value timezone.now() returned when
\* it ran.  The join on category drops the posts without one.
PostManager(t) ==
    {p \in DOMAIN posts :
        /\ posts[p].is_published
        /\ posts[p].category # Null
        /\ categories[posts[p].category].is_published
        /\ posts[p].pub_date < t}

\* order_by('-pub_date'): every order of S the database may return.
IsNewestFirst(s) ==
    \A i, j \in 1..Len(s) : i < j => posts[s[i]].pub_date >= posts[s[j]].pub_date

SeqsOf(S) ==
    {s \in [1..Cardinality(S) -> S] : \A i, j \in 1..Cardinality(S) : i # j => s[i] # s[j]}

OrderByPubDateDesc(S) == {s \in SeqsOf(S) : IsNewestFirst(s)}


\* -------------------------------------------------------- blog/views.py
Reply(resp) == [resp |-> resp, store |-> Store]

\* LoginRequiredMixin.dispatch
LoginRequired(user) == IF is_authenticated(user) THEN "super" ELSE "login"

\* Mutant: the author is not compared with the requesting user.
PostMixinDispatch_NoOwnerCheck(user, post_id) ==
    IF post_id \notin DOMAIN posts THEN NotFound ELSE Ok

\* PostMixin.dispatch: runs before LoginRequiredMixin.dispatch (it is first
\* in the bases of PostUpdateView and PostDeleteView).
PostMixinDispatch(user, post_id) ==
    IF post_id \notin DOMAIN posts THEN NotFound
    ELSE IF posts[post_id].author # user THEN RedirectDetail(post_id)
    ELSE Ok

\* CommentMixin.dispatch: the comment is looked up by comment_id alone, and
\* the redirect goes to the post_id of the URL.
CommentMixinDispatch(user, post_id, comment_id) ==
    IF comment_id \notin DOMAIN comments THEN NotFound
    ELSE IF comments[comment_id].author # user THEN RedirectDetail(post_id)
    ELSE Ok

\* IndexListView: queryset = Post.manager.all() is evaluated when the class
\* body runs, so its pub_date bound is the import instant.
IndexListView ==
    [resp |-> Ok, object_list |-> OrderByPubDateDesc(PostManager(import_now))]

\* Mutant: the author is held to the public predicate like everyone else.
PostDetailView_NoAuthorBypass(user, post_id) ==
    IF post_id \notin DOMAIN posts THEN NotFound
    ELSE IF ~posts[post_id].is_published THEN NotFound
    ELSE IF ~(posts[post_id].pub_date <= now) THEN NotFound
    ELSE IF posts[post_id].category = Null THEN ServerError
    ELSE IF categories[posts[post_id].category].is_published THEN Ok
    ELSE NotFound

\* PostDetailView.dispatch
PostDetailView(user, post_id) ==
    IF post_id \notin DOMAIN posts THEN NotFound
    ELSE IF posts[post_id].author = user THEN Ok
    ELSE IF ~posts[post_id].is_published THEN NotFound
    ELSE IF ~(posts[post_id].pub_date <= now) THEN NotFound
    ELSE IF posts[post_id].category = Null THEN ServerError
    ELSE IF categories[posts[post_id].category].is_published THEN Ok
    ELSE NotFound

\* CategoryPostsListView.get_queryset and get_context_data
CategoryPostsListView(user, category_slug) ==
    IF category_slug \in DOMAIN categories
       /\ categories[category_slug].is_published
    THEN [resp |-> Ok,
          object_list |-> OrderByPubDateDesc(
              {p \in PostManager(now) : posts[p].category = category_slug})]
    ELSE [resp |-> NotFound, object_list |-> {}]

\* ProfileListView.get_queryset and get_context_data
ProfileQueryset(user, username) ==
    LET authored == {p \in DOMAIN posts : posts[p].author = username}
    IN  IF user # username
        THEN {p \in authored :
                /\ posts[p].is_published
                /\ posts[p].category # Null
                /\ categories[posts[p].category].is_published
                /\ posts[p].pub_date < now}
        ELSE authored

ProfileListView(user, username) ==
    IF username \in DOMAIN users
    THEN [resp |-> Ok,
          object_list |-> OrderByPubDateDesc(ProfileQueryset(user, username))]
    ELSE [resp |-> NotFound, object_list |-> {}]

\* ProfileUpdateView: its own dispatch looks up User(id=request.user.pk)
\* before LoginRequiredMixin runs; AnonymousUser.pk is None.
ProfileUpdateView(user, form) ==
    IF user \notin DOMAIN users THEN Reply(NotFound)
    ELSE IF LoginRequired(user) = "login" THEN Reply(RedirectLogin)
    ELSE [resp |-> RedirectProfile(user),
          store |-> [Store EXCEPT
                       !.users = Put(users, user, UserFormSave(users[user], form))]]

\* PostCreateView
PostCreateView(user, form) ==
    IF LoginRequired(user) = "login" THEN Reply(RedirectLogin)
    ELSE IF ~PostFormValid(form) THEN Reply(FormInvalid)
    ELSE [resp |-> RedirectProfile(user),
          store |-> [Store EXCEPT
                       !.posts = Put(posts, next_post_id, NewPost(user, form)),
                       !.next_post_id = next_post_id + 1]]

\* PostUpdateView
PostUpdateView(user, post_id, form) ==
    IF PostMixinDispatch(user, post_id) # Ok
    THEN Reply(PostMixinDispatch(user, post_id))
    ELSE IF LoginRequired(user) = "login" THEN Reply(RedirectLogin)
    ELSE IF ~PostFormValid(form) THEN Reply(FormInvalid)
    ELSE [resp |-> RedirectDetail(post_id),
          store |-> [Store EXCEPT
                       !.posts = Put(posts, post_id,
                                     PostFormSave(posts[post_id], form))]]

\* PostDeleteView; Comment.post is on_delete=CASCADE.
PostDeleteView(user, post_id) ==
    IF PostMixinDispatch(user, post_id) # Ok
    THEN Reply(PostMixinDispatch(user, post_id))
    ELSE IF LoginRequired(user) = "login" THEN Reply(RedirectLogin)
    ELSE [resp |-> RedirectProfile(user),
          store |-> [Store EXCEPT
                       !.posts = Remove(posts, {post_id}),
                       !.comments = Remove(comments,
                           {c \in DOMAIN comments : comments[c].post = post_id})]]

\* CommentCreateView: its own dispatch looks the post up first.
CommentCreateView(user, post_id, text) ==
    IF post_id \notin DOMAIN posts THEN Reply(NotFound)
    ELSE IF LoginRequired(user) = "login" THEN Reply(RedirectLogin)
    ELSE IF ~CommentFormValid(text) THEN Reply(FormInvalid)
    ELSE [resp |-> RedirectDetail(post_id),
          store |-> [Store EXCEPT
                       !.comments = Put(comments, next_comment_id,
                           CommentFormSave(
                               [author |-> user, post |-> post_id, text |-> text],
                               text)),
                       !.next_comment_id = next_comment_id + 1]]

\* CommentUpdateView
CommentUpdateView(user, post_id, comment_id, text) ==
    IF CommentMixinDispatch(user, post_id, comment_id) # Ok
    THEN Reply(CommentMixinDispatch(user, post_id, comment_id))
    ELSE IF LoginRequired(user) = "login" THEN Reply(RedirectLogin)
    ELSE IF ~CommentFormValid(text) THEN Reply(FormInvalid)
    ELSE [resp |-> RedirectDetail(post_id),
          store |-> [Store EXCEPT
                       !.comments = Put(comments, comment_id,
                           CommentFormSave(comments[comment_id], text))]]

\* CommentDeleteView
CommentDeleteView(user, post_id, comment_id) ==
    IF CommentMixinDispatch(user, post_id, comment_id) # Ok
    THEN Reply(CommentMixinDispatch(user, post_id, comment_id))
    ELSE IF LoginRequired(user) = "login" THEN Reply(RedirectLogin)
    ELSE [resp |-> RedirectDetail(post_id),
          store |-> [Store EXCEPT !.comments = Remove(comments, {comment_id})]]

\* ------------------------------------------------------------- actions
Commit(store) ==
    /\ users' = store.users
    /\ posts' = store.posts
    /\ comments' = store.comments
    /\ next_post_id' = store.next_post_id
    /\ next_comment_id' = store.next_comment_id
    /\ UNCHANGED <<now, import_now, categories>>

ProfileUpdate(user, form) ==
    LET r == ProfileUpdateView(user, form) IN Commit(r.store)

PostCreate(user, form) ==
    /\ next_post_id <= MaxPosts
    /\ LET r == PostCreateView(user, form) IN Commit(r.store)

PostUpdate(user, post_id, form) ==
    LET r == PostUpdateView(user, post_id, form) IN Commit(r.store)

PostDelete(user, post_id) ==
    LET r == PostDeleteView(user, post_id) IN Commit(r.store)

CommentCreate(user, post_id, text) ==
    /\ next_comment_id <= MaxComments
    /\ LET r == CommentCreateView(user, post_id, text) IN Commit(r.store)

CommentUpdate(user, post_id, comment_id, text) ==
    LET r == CommentUpdateView(user, post_id, comment_id, text)
    IN  Commit(r.store)

CommentDelete(user, post_id, comment_id) ==
    LET r == CommentDeleteView(user, post_id, comment_id) IN Commit(r.store)

\* The requests of the application.
ProfileNext ==
    \E user \in Viewers, form \in UserForms : ProfileUpdate(user, form)

PostNext ==
    \/ \E user \in Viewers, form \in PostForms : PostCreate(user, form)
    \/ \E user \in Viewers, post_id \in PostIdInputs, form \in PostForms :
          PostUpdate(user, post_id, form)
    \/ \E user \in Viewers, post_id \in PostIdInputs : PostDelete(user, post_id)

CommentNext ==
    \/ \E user \in Viewers, post_id \in PostIdInputs, text \in Texts :
          CommentCreate(user, post_id, text)
    \/ \E user \in Viewers, post_id \in PostIdInputs,
          comment_id \in CommentIdInputs, text \in Texts :
          CommentUpdate(user, post_id, comment_id, text)
    \/ \E user \in Viewers, post_id \in PostIdInputs,
          comment_id \in CommentIdInputs :
          CommentDelete(user, post_id, comment_id)

AppNext == ProfileNext \/ PostNext \/ CommentNext

\* The clock of timezone.now().
Tick ==
    /\ now < MaxTime
    /\ now' = now + 1
    /\ UNCHANGED <<import_now, users, categories, posts, comments,
                   next_post_id, next_comment_id>>

\* The server process starts again: blog/views.py is imported anew.
Restart ==
    /\ import_now' = now
    /\ UNCHANGED <<now, users, categories, posts, comments,
                   next_post_id, next_comment_id>>

\* The administrators' edits of is_published, and of the categories.
AdminSetPostPublished(post_id, flag) ==
    /\ post_id \in DOMAIN posts
    /\ posts' = Put(posts, post_id, [posts[post_id] EXCEPT !.is_published = flag])
    /\ UNCHANGED <<now, import_now, users, categories, comments,
                   next_post_id, next_comment_id>>

AdminSetCategoryPublished(cat, flag) ==
    /\ cat \in DOMAIN categories
    /\ categories' = Put(categories, cat, [is_published |-> flag])
    /\ UNCHANGED <<now, import_now, users, posts, comments,
                   next_post_id, next_comment_id>>

\* Post.category is on_delete=SET_NULL.
AdminDeleteCategory(cat) ==
    /\ cat \in DOMAIN categories
    /\ categories' = Remove(categories, {cat})
    /\ posts' = [p \in DOMAIN posts |->
                   IF posts[p].category = cat
                   THEN [posts[p] EXCEPT !.category = Null]
                   ELSE posts[p]]
    /\ UNCHANGED <<now, import_now, users, comments,
                   next_post_id, next_comment_id>>

AdminNext ==
    \/ \E post_id \in PostIdInputs, flag \in BOOLEAN :
          AdminSetPostPublished(post_id, flag)
    \/ \E cat \in CatIds, flag \in BOOLEAN : AdminSetCategoryPublished(cat, flag)
    \/ \E cat \in CatIds : AdminDeleteCategory(cat)

Init ==
    /\ now = 0
    /\ import_now = 0
    /\ users = [u \in Users |-> [first_name |-> ""]]
    /\ categories = [c \in CatIds |-> [is_published |-> TRUE]]
    /\ posts = [p \in {} |-> 0]
    /\ comments = [c \in {} |-> 0]
    /\ next_post_id = 1
    /\ next_comment_id = 1

Next == AppNext \/ AdminNext \/ Tick \/ Restart

\* The whole system: requests, administrators, clock and restarts.
Spec == Init /\ [][Next]_vars

\* The requests alone.  No view that writes reads the clock.
SpecApp == Init /\ [][AppNext]_vars

\* The post and comment requests and the administrators, at one instant.
StoreNext == PostNext \/ CommentNext \/ AdminNext

SpecStore == Init /\ [][StoreNext]_vars

TypeOK ==
    /\ now \in Times
    /\ import_now \in 0..now
    /\ DOMAIN users = Users
    /\ DOMAIN categories \subseteq CatIds
    /\ DOMAIN posts \subseteq 1..(next_post_id - 1)
    /\ DOMAIN comments \subseteq 1..(next_comment_id - 1)
    /\ \A p \in DOMAIN posts :
          /\ posts[p].author \in Users
          /\ posts[p].category \in DOMAIN categories \cup {Null}
          /\ posts[p].pub_date \in Times
    /\ \A c \in DOMAIN comments :
          /\ comments[c].author \in Users
          /\ comments[c].post \in DOMAIN posts
          /\ CommentFormValid(comments[c].text)

\* ------------------------------------------------------------- claims
Range(s) == {s[i] : i \in DOMAIN s}

\* The public-visibility predicate as the specification states it.
Public(p) ==
    /\ posts[p].is_published
    /\ posts[p].category # Null
    /\ categories[posts[p].category].is_published
    /\ posts[p].pub_date <= now

AuthoredBy(username) == {p \in DOMAIN posts : posts[p].author = username}

\* C1: a post is in the home feed if and only if it is published, its
\* category is published and its pub_date is at or before now; a future-dated
\* post is present from the instant now = pub_date onward.
C1_HomeFeedIsThePublicPosts ==
    /\ IndexListView.resp = Ok
    /\ \A s \in IndexListView.object_list :
          Range(s) = {p \in DOMAIN posts : Public(p)}

\* C2: for every viewer other than the author, the detail view of a post that
\* does not satisfy the public predicate is NotFound, also when the post is
\* published and has no category.
C2_HiddenPostIsNotFound ==
    \A p \in DOMAIN posts, viewer \in Viewers :
        (viewer # posts[p].author /\ ~Public(p))
            => PostDetailView(viewer, p) = NotFound

\* C3: the detail view of a post succeeds for its author in every publication
\* state of the post.
C3_AuthorSeesOwnPost ==
    \A p \in DOMAIN posts : PostDetailView(posts[p].author, p) = Ok

\* C3 witness: an unpublished, future-dated post without a category, which its
\* author sees and the other viewers do not.
C3_Witness ==
    \E p \in DOMAIN posts :
        /\ ~posts[p].is_published
        /\ posts[p].pub_date > now
        /\ posts[p].category = Null
        /\ PostDetailView(posts[p].author, p) = Ok
        /\ \A viewer \in Viewers \ {posts[p].author} :
              PostDetailView(viewer, p) = NotFound

\* What a request leaves alone: the posts other than p, and the comments on
\* posts other than p.
OtherPostsKept(store, p) ==
    /\ DOMAIN store.posts \ {p} = DOMAIN posts \ {p}
    /\ \A q \in DOMAIN posts \ {p} : store.posts[q] = posts[q]

\* C4: update post and delete post requested by an authenticated viewer who
\* is not the author change nothing and redirect to the post's detail view;
\* requested by the author, the update (of a valid form) and the deletion
\* are applied.
C4_OnlyTheAuthorMutatesAPost ==
    \A user \in Users, p \in DOMAIN posts, form \in PostForms :
        LET upd == PostUpdateView(user, p, form)
            del == PostDeleteView(user, p)
        IN  IF user # posts[p].author
            THEN /\ upd.resp = RedirectDetail(p) /\ upd.store = Store
                 /\ del.resp = RedirectDetail(p) /\ del.store = Store
            ELSE /\ PostFormValid(form) =>
                      /\ p \in DOMAIN upd.store.posts
                      /\ upd.store.posts[p].pub_date = form.pub_date
                      /\ upd.store.posts[p].category = form.category
                      /\ OtherPostsKept(upd.store, p)
                      /\ upd.store.comments = comments
                 /\ p \notin DOMAIN del.store.posts
                 /\ OtherPostsKept(del.store, p)
                 /\ DOMAIN del.store.comments =
                        {c \in DOMAIN comments : comments[c].post # p}
                 /\ \A c \in DOMAIN del.store.comments :
                        del.store.comments[c] = comments[c]

\* C4 witness: a commented post which a viewer other than its author is
\* turned away from, and which its author can change and delete.
C4_Witness ==
    \E p \in DOMAIN posts, c \in DOMAIN comments, user \in Users,
       form \in PostForms :
        /\ comments[c].post = p
        /\ user # posts[p].author
        /\ PostUpdateView(user, p, form).resp = RedirectDetail(p)
        /\ PostDeleteView(user, p).resp = RedirectDetail(p)
        /\ PostUpdateView(posts[p].author, p, form).store.posts # posts
        /\ PostDeleteView(posts[p].author, p).store.comments # comments

\* C5: update comment and delete comment requested by a viewer who is not the
\* comment's author change nothing and redirect to the detail view of the
\* comment's own post, whatever post id the request carries.
C5_DeniedCommentEditGoesToItsPost ==
    \A user \in Users, c \in DOMAIN comments, post_id \in PostIdInputs,
       text \in Texts :
        user # comments[c].author =>
            LET upd == CommentUpdateView(user, post_id, c, text)
                del == CommentDeleteView(user, post_id, c)
            IN  /\ upd.resp = RedirectDetail(comments[c].post)
                /\ upd.store = Store
                /\ del.resp = RedirectDetail(comments[c].post)
                /\ del.store = Store

\* C6: every operation that requires authentication answers an anonymous
\* request with a redirect to the login flow and changes nothing.
C6_AnonymousGoesToLogin ==
    \A post_id \in PostIdInputs, comment_id \in CommentIdInputs,
       text \in Texts, post_form \in PostForms, user_form \in UserForms :
        \A r \in {ProfileUpdateView(Anonymous, user_form),
                  PostCreateView(Anonymous, post_form),
                  PostUpdateView(Anonymous, post_id, post_form),
                  PostDeleteView(Anonymous, post_id),
                  CommentCreateView(Anonymous, post_id, text),
                  CommentUpdateView(Anonymous, post_id, comment_id, text),
                  CommentDeleteView(Anonymous, post_id, comment_id)} :
            r.resp = RedirectLogin /\ r.store = Store

\* C7: the profile of an existing user lists all of that user's posts to that
\* user and exactly the public ones to every other viewer, newest first; the
\* profile of a missing user is NotFound.
C7_ProfileListing ==
    \A viewer \in Viewers, username \in Usernames :
        LET r == ProfileListView(viewer, username)
        IN  IF username \in DOMAIN users
            THEN /\ r.resp = Ok
                 /\ r.object_list # {}
                 /\ \A s \in r.object_list :
                       /\ IsNewestFirst(s)
                       /\ Range(s) =
                            IF viewer = username
                            THEN AuthoredBy(username)
                            ELSE {p \in AuthoredBy(username) : Public(p)}
            ELSE r.resp = NotFound

\* C8: the feed of a missing or unpublished category is NotFound for every
\* viewer; the feed of a published category is exactly its public posts.
C8_CategoryFeed ==
    \A viewer \in Viewers, slug \in Slugs :
        LET r == CategoryPostsListView(viewer, slug)
        IN  IF slug \in DOMAIN categories /\ categories[slug].is_published
            THEN /\ r.resp = Ok
                 /\ r.object_list # {}
                 /\ \A s \in r.object_list :
                       Range(s) = {p \in DOMAIN posts :
                                     posts[p].category = slug /\ Public(p)}
            ELSE r.resp = NotFound

\* Exactly one comment, by user on post_id, is added and nothing else changes.
OneCommentAdded(store, user, post_id) ==
    /\ \E c \in DOMAIN store.comments \ DOMAIN comments :
          /\ DOMAIN store.comments = DOMAIN comments \cup {c}
          /\ store.comments[c].author = user
          /\ store.comments[c].post = post_id
    /\ \A d \in DOMAIN comments : store.comments[d] = comments[d]
    /\ store.posts = posts
    /\ store.users = users

\* C9 as stated: a comment by an authenticated viewer on an existing post
\* with a non-empty text of at most 120 characters adds exactly one comment;
\* on a missing post it is NotFound; with a text longer than 120 characters it
\* fails validation; the last two persist nothing.
C9_CreateCommentByLength ==
    \A user \in Users, post_id \in PostIdInputs, text \in Texts :
        LET r == CommentCreateView(user, post_id, text)
        IN  IF post_id \notin DOMAIN posts
            THEN r.resp = NotFound /\ r.store = Store
            ELSE IF TextLen(text) > COMMENT_TEXT_MAX_LENGTH
            THEN r.resp = FormInvalid /\ r.store = Store
            ELSE TextLen(text) > 0 => OneCommentAdded(r.store, user, post_id)

\* C9 as amended: the length that counts is that of the text without its
\* leading and trailing whitespace, which is also the text stored; a text
\* that is empty without them fails validation.
C9_CreateCommentByStrippedLength ==
    \A user \in Users, post_id \in PostIdInputs, text \in Texts :
        LET r == CommentCreateView(user, post_id, text)
        IN  IF post_id \notin DOMAIN posts
            THEN r.resp = NotFound /\ r.store = Store
            ELSE IF \/ text.body > COMMENT_TEXT_MAX_LENGTH
                    \/ text.body = 0
            THEN r.resp = FormInvalid /\ r.store = Store
            ELSE /\ r.resp = RedirectDetail(post_id)
                 /\ OneCommentAdded(r.store, user, post_id)
                 /\ \A c \in DOMAIN r.store.comments \ DOMAIN comments :
                       r.store.comments[c].text = TextOf(0, text.body, 0)

\* C9 witness: a stored comment of exactly 120 characters, which only the text
\* of 121 characters ending in a space produces, on a post where a blank text
\* fails validation.
C9_Witness ==
    \E c \in DOMAIN comments :
        /\ comments[c].text = TextOf(0, COMMENT_TEXT_MAX_LENGTH, 0)
        /\ comments[c].post \in DOMAIN posts
        /\ CommentCreateView(comments[c].author, comments[c].post,
                             TextOf(1, 0, 0)).resp = FormInvalid

\* One step of the application, as C10 describes it: the posts it keeps keep
\* their author and is_published, the comments it keeps keep their author and
\* post; a new post has the requesting viewer as author, a new comment the
\* requesting viewer and the requested post; a step that changes the text of
\* a comment changes nothing else.
C10_Step ==
    /\ \A p \in DOMAIN posts \cap DOMAIN posts' :
          /\ posts'[p].author = posts[p].author
          /\ posts'[p].is_published = posts[p].is_published
    /\ \A p \in DOMAIN posts' \ DOMAIN posts :
          \E user \in Users, form \in PostForms :
              /\ PostCreate(user, form)
              /\ posts'[p].author = user
    /\ \A c \in DOMAIN comments \cap DOMAIN comments' :
          /\ comments'[c].author = comments[c].author
          /\ comments'[c].post = comments[c].post
    /\ \A c \in DOMAIN comments' \ DOMAIN comments :
          \E user \in Users, post_id \in PostIdInputs, text \in Texts :
              /\ CommentCreate(user, post_id, text)
              /\ comments'[c].author = user
              /\ comments'[c].post = post_id
    /\ \A c \in DOMAIN comments \cap DOMAIN comments' :
          comments'[c].text # comments[c].text =>
              /\ posts' = posts
              /\ users' = users
              /\ DOMAIN comments' = DOMAIN comments
              /\ \A d \in DOMAIN comments \ {c} : comments'[d] = comments[d]

\* C10: after any sequence of requests of the application every post's author
\* is the viewer who created it and its is_published is the one it was created
\* with, and every comment's author and post are those set at creation: every
\* step is a C10_Step.
C10_AuthorshipIsKept == [][C10_Step]_vars

\* C10 witness: a post with a comment by the other user, after its author
\* has updated the profile.
C10_Witness ==
    \E p \in DOMAIN posts, c \in DOMAIN comments :
        /\ comments[c].post = p
        /\ comments[c].author # posts[p].author
        /\ users[posts[p].author].first_name # ""
        /\ posts[p].pub_date > 0

=============================================================================
